---- MODULE Spec2Model ----
(***************************************************************************)
(* Horizontal section-navigation controller of the landing page            *)
(* (frontend/src/routes/landing.tsx, LandingPage).                          *)
(*                                                                          *)
(* The state is the component's refs and React state, the scroll container *)
(* (scrollLeft, inline scrollSnapType, the smooth scroll the browser is    *)
(* running) and the timers the handlers have created.  One action per      *)
(* event handler or timer callback; the browser's rendering of a frame of  *)
(* a smooth scroll is an action of the environment.                        *)
(***************************************************************************)
EXTENDS Integers, Sequences, FiniteSets, TLC

\* ------------------------------------------------------------------ bounds
\* Width in pixels of one section (w-screen): the viewport width at mount.
ViewportWidth == 10
\* Number of input events (clicks, keys, swipes, wheel events, resizes) in a run.
MaxInputs == 2
\* Largest distance in pixels a smooth scroll covers in one frame.
MaxFrameStep == 2
\* Number of full audits launched in a run.
MaxJobs == 2

\* Number of wheel events in a run of wheel input alone.
MaxBurst == 5
\* Number of navigation requests after which such a run takes no more input.
MaxWheelRequests == 1
\* Number of touch and key events in a run of touch and key input alone.
MaxSwipeInputs == 3

\* ------------------------------------------------------- program constants
\* sectionLabels.length
NumSections == 7
\* settle check: "if we're off by more than 2px, correct it"
SettleTolerance == 2
\* handleTouchEnd: "currentSection < 4"
TouchForwardLimit == 4
\* handleTouchEnd: minimum swipe distance, Math.abs(dy) > 50
SwipeMinDistance == 50

\* handleWheel: DELTA_THRESHOLD, the accumulated delta that triggers a scroll
DELTA_THRESHOLD == 50
\* handleWheel: accumulated delta per section of a rapid scroll
RapidScrollDelta == 200
\* handleWheel: at most this many sections per flush
RapidScrollCap == 2
\* handleResize: "more than 10px"
ResizeTolerance == 10

MaxIndex == NumSections - 1
\* Touch coordinates (clientY, clientX) and wheel deltas (deltaY, deltaX) of
\* the input events.
TouchYs == {300, 500}
TouchStartXs == {100}
TouchEndXs == {100, 400}
WheelEvents == {<<20, 0>>, <<-60, 0>>, <<450, 0>>, <<0, 5>>, <<1, -5>>}
NoTimer == 0
\* Widths the window is resized between.
ViewportWidths == {ViewportWidth, 2 * ViewportWidth}
NoAnim == -1
NoPending == -1
NoResponse == [ok |-> TRUE, status |-> 0, contentType |-> "", body |-> "",
               statusText |-> ""]
NoOutcome == [kind |-> "none"]
NoStatus == "none"
SnapOn == "x mandatory"
SnapOff == "none"

VARIABLES
    currentSection,       \* React state: the authoritative index
    scrollInProgressRef,  \* ref: "transition in progress"
    pendingScrollRef,     \* ref: index of the pending transition, or NoPending
    scrollLeft,           \* container.scrollLeft
    animTarget,           \* destination of the smooth scroll in flight, or NoAnim
    scrollSnapType,       \* container.style.scrollSnapType
    sectionWidth,         \* firstSection.offsetWidth
    settleTimers,         \* pending setTimeout(..., 800) callbacks, oldest first;
                          \* aged: a frame interval has passed since it was set
    touchStart,           \* refs touchStartY, touchStartX
    accumulatedDelta,     \* handleWheel's closure variable
    wheelRecent,          \* Date.now() - lastWheelTime < 300
    wheelTimeout,         \* deltaY of the event whose debounce timer is pending, or NoTimer
    resizeTimeout,        \* handleResize's 150 ms debounce timer is pending
    layoutTimers,         \* pending 100 ms layout timers: the currentSection each captured
    inputs,               \* number of input events so far
    wheelBurst,           \* history: the wheel events accumulated since the last flush
    lastWheel,            \* history: deltaY and deltaX of the wheel event just handled
    lastTouchEnd,         \* history: clientY and clientX of the touch end just handled
    lastCall,             \* history: the last scrollToSection invocation
    episode,              \* history: the calls made since the page was last at rest
    mounted,              \* LandingPage is mounted: its listeners are attached
    \* api/client.ts
    response,             \* the Response fetch resolved with, or NoResponse
    outcome,              \* what the api call settled with, or NoOutcome
    \* routes/upload.tsx: AuditPage and the backend's audit jobs
    jobId,                \* React state jobId: 0 for null
    streamStatus,         \* React state streamStatus: its state field, or NoStatus
    startAudit,           \* status of the startAudit mutation
    es,                   \* the EventSource of the current job
    errorFetch,           \* job whose status es.onerror is fetching, or 0
    refreshFetch,         \* job whose status the Refresh button is fetching, or 0
    jobs                  \* backend: the state of each audit job, by job id

ctl == <<currentSection, scrollInProgressRef, pendingScrollRef, scrollLeft,
         animTarget, scrollSnapType, settleTimers>>
vars == <<currentSection, scrollInProgressRef, pendingScrollRef, scrollLeft,
          animTarget, scrollSnapType, sectionWidth, settleTimers, touchStart,
          accumulatedDelta, wheelRecent, wheelTimeout, resizeTimeout,
          layoutTimers, inputs, wheelBurst, lastWheel, lastTouchEnd, lastCall,
          episode, mounted, response, outcome, jobId, streamStatus, startAudit,
          es, errorFetch, refreshFetch, jobs>>
landingVars == <<currentSection, scrollInProgressRef, pendingScrollRef,
                 scrollLeft, animTarget, scrollSnapType, sectionWidth,
                 settleTimers, touchStart, accumulatedDelta, wheelRecent,
                 wheelTimeout, resizeTimeout, layoutTimers, inputs, wheelBurst,
                 lastWheel, lastTouchEnd, lastCall, episode, mounted>>
apiVars == <<response, outcome>>
auditVars == <<jobId, streamStatus, startAudit, es, errorFetch, refreshFetch,
               jobs>>
touchVars == <<touchStart>>
resizeVars == <<sectionWidth, resizeTimeout, layoutTimers>>
wheelVars == <<accumulatedDelta, wheelRecent, wheelTimeout, wheelBurst, lastWheel>>
wheelRefs == <<accumulatedDelta, wheelRecent, wheelTimeout, wheelBurst>>

\* ----------------------------------------------------------------- helpers
Abs(x) == IF x < 0 THEN -x ELSE x
Min(a, b) == IF a < b THEN a ELSE b
Max(a, b) == IF a > b THEN a ELSE b

ClampNoUpper(index) == Max(0, index)

ClampNoLower(index) == Min(MaxIndex, index)

\* Math.max(0, Math.min(maxIndex, index))
Clamp(index) == Max(0, Min(MaxIndex, index))

\* The container scrolls between 0 and scrollWidth - clientWidth.
MaxScroll(w) == MaxIndex * w
ClampScroll(x, w) == Max(0, Min(MaxScroll(w), x))

FracAtLeastThreshold(offset, w) == 10 * (offset % w) >= 3 * w

\* rawIndex % 1 > 0.3 on IEEE doubles: the exact comparison, except that
\* 1.3 % 1 is 0.30000000000000004 (k.3 % 1 <= 0.3 for every other k < 7).
FracAboveThreshold(offset, w) ==
    \/ 10 * (offset % w) > 3 * w
    \/ 10 * (offset % w) = 3 * w /\ offset \div w = 1

\* Math.ceil(rawIndex) or Math.floor(rawIndex) by the threshold.
UnclampedIndex(offset, w) ==
    IF FracAboveThreshold(offset, w)
    THEN IF offset % w = 0 THEN offset \div w ELSE (offset \div w) + 1
    ELSE offset \div w

\* handleScroll: the index derived from the scroll offset.
ResolveIndex(offset, w) == Clamp(UnclampedIndex(offset, w))

\* window.innerWidth: the sections are w-screen, so it is their width whenever
\* they can be measured, and the initial window's width while they cannot.
innerWidth == IF sectionWidth = 0 THEN ViewportWidth ELSE sectionWidth

\* firstSection?.offsetWidth || window.innerWidth
WidthOrViewport(offsetWidth) ==
    IF offsetWidth = 0 THEN innerWidth ELSE offsetWidth

\* ------------------------------------------------------------- the browser
\* Positions the snap algorithm may choose for a scroll meant to end at x.
SnapPositions(x, w) ==
    IF x % w = 0 THEN {x}
    ELSE {(x \div w) * w, ClampScroll(((x \div w) + 1) * w, w)}

\* Where a scroll by the user to x ends: at a snap position while the
\* container snaps, at x otherwise.
ScrollDestinations(x, w) ==
    IF scrollSnapType = SnapOn /\ w > 0
    THEN SnapPositions(ClampScroll(x, w), w)
    ELSE {ClampScroll(x, w)}

\* container.scrollTo({left, behavior: 'smooth'}): the smooth scroll in flight
\* is replaced; a scroll to the current position is complete at once.
SmoothScrollTo(left, from, w) ==
    LET dest == ClampScroll(left, w)
    IN IF dest = from THEN NoAnim ELSE dest

Quiescent ==
    /\ ~scrollInProgressRef
    /\ settleTimers = <<>>
    /\ animTarget = NoAnim
    /\ wheelTimeout = NoTimer
    /\ ~resizeTimeout
    /\ layoutTimers = <<>>

\* ----------------------------------------------------------------- history
\* An episode is what has happened since a scrollToSection call made while the
\* page was at rest: the indices requested, whether a frame or a timer
\* has run since the last of them, and where the page was when it began.
NoEpisode == [calls |-> <<>>, moved |-> FALSE, ok |-> FALSE, from |-> 0,
              fromIndex |-> 0]

\* A call from rest opens an episode; a second call with nothing in between
\* extends it; any other call or input closes it.
EpisodeAfterCall(k) ==
    IF Quiescent
    THEN [calls |-> <<k>>, moved |-> FALSE, ok |-> TRUE, from |-> scrollLeft,
          fromIndex |-> currentSection]
    ELSE IF episode.ok /\ Len(episode.calls) = 1 /\ ~episode.moved
    THEN [episode EXCEPT !.calls = Append(episode.calls, k)]
    ELSE NoEpisode

\* What the last scrollToSection call did: returned early on a duplicate,
\* replaced the transition in progress, or started one from idle.
CallKind(index) ==
    IF scrollInProgressRef /\ pendingScrollRef = Max(0, Min(MaxIndex, index))
    THEN "duplicate"
    ELSE IF scrollInProgressRef THEN "replace" ELSE "fresh"

EpisodeAfterStep ==
    IF episode.ok THEN [episode EXCEPT !.moved = TRUE] ELSE episode

\* -------------------------------------------------------------- React state
\* setCurrentSection(index). A changed index re-runs the effects that depend
\* on currentSection; the cleanup of the resize effect clears its debounce timer.
setCurrentSection(index) ==
    /\ currentSection' = index
    /\ resizeTimeout' = IF index /= currentSection THEN FALSE ELSE resizeTimeout

\* ------------------------------------------------------ NavigationController
NeverDuplicate(index) == FALSE

\* scrollToSection(index, cancelPrevious): the duplicate request returns early.
IsDuplicate(index) ==
    scrollInProgressRef /\ pendingScrollRef = Clamp(index)

CancelRewinds(cancelPrevious) ==
    IF cancelPrevious /\ scrollInProgressRef
    THEN sectionWidth * pendingScrollRef
    ELSE scrollLeft

\* The position the container is left at by the cancellation of the scroll
\* in flight: container.scrollTo({left: container.scrollLeft, behavior: 'auto'}).
CancelPosition(cancelPrevious) == scrollLeft

FeedbackIndexStale(clampedIndex) == currentSection

\* "Update state immediately for UI feedback": the index given to
\* setCurrentSection before the scroll starts.
FeedbackIndex(clampedIndex) == clampedIndex

\* targetScroll: the exact pixel position at the start of the section.
TargetScroll(w, clampedIndex) == w * clampedIndex

\* The body of scrollToSection past the duplicate check.
StartTransition(index, cancelPrevious) ==
    LET clampedIndex == Clamp(index)
        from == CancelPosition(cancelPrevious)
        targetScroll == TargetScroll(sectionWidth, clampedIndex)
        originalSnapType == scrollSnapType
    IN /\ scrollLeft' = from
       /\ scrollInProgressRef' = TRUE
       /\ pendingScrollRef' = clampedIndex
       /\ scrollSnapType' = SnapOff
       /\ setCurrentSection(FeedbackIndex(clampedIndex))
       /\ animTarget' = SmoothScrollTo(targetScroll, from, sectionWidth)
       /\ settleTimers' = Append(settleTimers,
              [index |-> clampedIndex, width |-> sectionWidth,
               snap |-> originalSnapType, aged |-> FALSE])

scrollToSection(index, cancelPrevious) ==
    /\ lastCall' = [n |-> lastCall.n + 1, index |-> index,
                    kind |-> CallKind(index)]
    /\ episode' = EpisodeAfterCall(index)
    /\ IF IsDuplicate(index)
       THEN UNCHANGED <<ctl, resizeTimeout>>
       ELSE StartTransition(index, cancelPrevious)
    /\ UNCHANGED <<sectionWidth, layoutTimers>>

\* The setTimeout callback of scrollToSection, 800 ms after the call.
SettleExpectedNext(t) == t.width * (t.index + 1)

\* expectedScroll of the settle check.
SettleExpected(t) == t.width * t.index

SettleCorrectsLoosely(t) == Abs(scrollLeft - SettleExpected(t)) > ResizeTolerance

\* "If we're off by more than 2px, correct it smoothly".
SettleCorrects(t) == Abs(scrollLeft - SettleExpected(t)) > SettleTolerance

SettleClearsUnlessCorrecting(t) == ~SettleCorrects(t)

\* "Mark scroll as complete": the flags are cleared whether or not the check
\* corrected the position.
SettleClearsFlags(t) == TRUE

SettleCheck ==
    /\ settleTimers /= <<>>
    /\ Head(settleTimers).aged
    /\ LET t == Head(settleTimers)
           expectedScroll == SettleExpected(t)
           restored == IF t.snap = "" THEN "" ELSE t.snap
       IN /\ animTarget' = IF SettleCorrects(t)
                           THEN SmoothScrollTo(expectedScroll, scrollLeft, sectionWidth)
                           ELSE animTarget
          /\ scrollSnapType' = restored
          /\ IF SettleClearsFlags(t)
             THEN /\ scrollInProgressRef' = FALSE
                  /\ pendingScrollRef' = NoPending
             ELSE UNCHANGED <<scrollInProgressRef, pendingScrollRef>>
    /\ settleTimers' = Tail(settleTimers)
    /\ episode' = EpisodeAfterStep
    /\ lastWheel' = <<0, 0>>
    /\ UNCHANGED <<mounted, apiVars, auditVars>>
    /\ lastTouchEnd' = <<0, 0>>
    /\ UNCHANGED <<currentSection, scrollLeft, resizeVars, inputs, lastCall,
                   touchVars, wheelRefs>>

\* ------------------------------------------------------------------ inputs
\* onClick of the logo, the nav links and the section buttons.
ButtonClick ==
    /\ mounted
    /\ inputs < MaxInputs
    /\ inputs' = inputs + 1
    /\ \E index \in 0..MaxIndex : scrollToSection(index, TRUE)
    /\ lastWheel' = <<0, 0>>
    /\ UNCHANGED <<mounted, apiVars, auditVars>>
    /\ lastTouchEnd' = <<0, 0>>
    /\ UNCHANGED <<touchVars, wheelRefs>>

\* handleKey: ArrowRight / ArrowLeft.
KeyPress ==
    /\ mounted
    /\ \E dir \in {1, -1} : scrollToSection(currentSection + dir, TRUE)
    /\ lastWheel' = <<0, 0>>
    /\ UNCHANGED <<mounted, apiVars, auditVars>>
    /\ lastTouchEnd' = <<0, 0>>
    /\ UNCHANGED <<touchVars, wheelRefs>>

handleKey ==
    /\ inputs < MaxInputs
    /\ inputs' = inputs + 1
    /\ KeyPress

\* handleTouchStart
TouchStart ==
    /\ mounted
    /\ \E y \in TouchYs, x \in TouchStartXs : touchStart' = [y |-> y, x |-> x]
    /\ lastWheel' = <<0, 0>>
    /\ UNCHANGED <<mounted, apiVars, auditVars>>
    /\ lastTouchEnd' = <<0, 0>>
    /\ UNCHANGED <<ctl, resizeVars, wheelRefs, lastCall, episode>>

handleTouchStart ==
    /\ inputs < MaxInputs
    /\ inputs' = inputs + 1
    /\ TouchStart

SwipeDirectionReversed(dy, dx) ==
    IF Abs(dy) > Abs(dx) /\ Abs(dy) > SwipeMinDistance
    THEN IF dy < 0 /\ currentSection < TouchForwardLimit THEN 1
         ELSE IF dy > 0 /\ currentSection > 0 THEN -1
         ELSE 0
    ELSE 0

\* handleTouchEnd: a vertical swipe becomes a step of one section.
SwipeDirection(dy, dx) ==
    IF Abs(dy) > Abs(dx) /\ Abs(dy) > SwipeMinDistance
    THEN IF dy > 0 /\ currentSection < TouchForwardLimit THEN 1
         ELSE IF dy < 0 /\ currentSection > 0 THEN -1
         ELSE 0
    ELSE 0

TouchEnd ==
    /\ mounted
    /\ \E y \in TouchYs, x \in TouchEndXs :
         LET dy == touchStart.y - y
             dx == touchStart.x - x
             dir == SwipeDirection(dy, dx)
         IN /\ IF dir /= 0
               THEN scrollToSection(currentSection + dir, TRUE)
               ELSE UNCHANGED <<ctl, resizeVars, lastCall, episode>>
            /\ lastTouchEnd' = <<y, x>>
    /\ lastWheel' = <<0, 0>>
    /\ UNCHANGED <<mounted, apiVars, auditVars>>
    /\ UNCHANGED <<touchStart, wheelRefs>>

handleTouchEnd ==
    /\ inputs < MaxInputs
    /\ inputs' = inputs + 1
    /\ TouchEnd

\* handleWheel: a dominant-vertical event is accumulated and debounced; any
\* other event with a horizontal delta scrolls the container by deltaX.
WheelSuppressed == scrollInProgressRef /\ wheelRecent

\* The burst an accepted event belongs to: the events since the debounce
\* timer was last started from nothing, and whether the controller was idle
\* at each of them.
BurstAfterEvent ==
    LET idle == ~scrollInProgressRef /\ settleTimers = <<>> /\ animTarget = NoAnim
    IN IF wheelTimeout = NoTimer
       THEN [events |-> 1, idle |-> idle]
       ELSE [events |-> wheelBurst.events + 1, idle |-> wheelBurst.idle /\ idle]

AnyVerticalGesture(deltaY, deltaX) == Abs(deltaY) > 0

\* "Always prevent vertical scroll and convert to horizontal": the event is
\* a navigation gesture.
IsVerticalGesture(deltaY, deltaX) == Abs(deltaY) > Abs(deltaX)

\* handleWheel(e) with e.deltaY = deltaY and e.deltaX = deltaX.
WheelEvent(deltaY, deltaX) ==
    /\ mounted
    /\ IF IsVerticalGesture(deltaY, deltaX)
       THEN /\ IF WheelSuppressed
               THEN UNCHANGED wheelRefs
               ELSE /\ accumulatedDelta' = accumulatedDelta + Abs(deltaY)
                    /\ wheelRecent' = TRUE
                    /\ wheelTimeout' = deltaY
                    /\ wheelBurst' = BurstAfterEvent
            /\ UNCHANGED ctl
       ELSE /\ IF Abs(deltaX) > 0
               THEN \E dest \in ScrollDestinations(scrollLeft + deltaX, sectionWidth) :
                      /\ animTarget' = SmoothScrollTo(dest, scrollLeft, sectionWidth)
                      /\ UNCHANGED <<currentSection, scrollInProgressRef,
                                     pendingScrollRef, scrollLeft, scrollSnapType,
                                     settleTimers>>
               ELSE UNCHANGED ctl
            /\ UNCHANGED wheelRefs
    /\ lastWheel' = <<deltaY, deltaX>>
    /\ UNCHANGED <<mounted, apiVars, auditVars>>
    /\ lastTouchEnd' = <<0, 0>>
    /\ episode' = NoEpisode
    /\ UNCHANGED <<resizeVars, touchVars, lastCall>>

handleWheel ==
    /\ inputs < MaxInputs
    /\ inputs' = inputs + 1
    /\ \E e \in WheelEvents : WheelEvent(e[1], e[2])

\* 300 ms pass without an accepted wheel event.
WheelCooldownElapses ==
    /\ wheelRecent
    /\ wheelRecent' = FALSE
    /\ lastWheel' = <<0, 0>>
    /\ UNCHANGED <<mounted, apiVars, auditVars>>
    /\ lastTouchEnd' = <<0, 0>>
    /\ UNCHANGED <<ctl, resizeVars, touchVars, accumulatedDelta, wheelTimeout,
                   wheelBurst, inputs, lastCall, episode>>

RapidAlwaysDouble(acc) == RapidScrollCap

RapidUncapped(acc) == IF acc > RapidScrollDelta THEN acc \div RapidScrollDelta ELSE 1

\* The debounce timer of handleWheel, 50 ms after the last accepted event.
RapidScrollMultiplier(acc) ==
    IF acc > RapidScrollDelta
    THEN Min(acc \div RapidScrollDelta, RapidScrollCap)
    ELSE 1

WheelTarget(deltaY, acc) ==
    LET currentIndex == UnclampedIndex(scrollLeft, WidthOrViewport(sectionWidth))
        scrollDirection == IF deltaY > 0 THEN 1 ELSE -1
    IN Clamp(currentIndex + scrollDirection * RapidScrollMultiplier(acc))

NeverNoise(acc) == FALSE

\* "Only proceed if we have enough accumulated delta".
IsNoise(acc) == acc < DELTA_THRESHOLD

WheelFlush ==
    /\ wheelTimeout /= NoTimer
    /\ wheelTimeout' = NoTimer
    /\ accumulatedDelta' = 0
    /\ IF IsNoise(accumulatedDelta)
       THEN UNCHANGED <<ctl, resizeVars, lastCall, episode>>
       ELSE LET targetIndex == WheelTarget(wheelTimeout, accumulatedDelta)
            IN IF targetIndex /= UnclampedIndex(scrollLeft,
                                                 WidthOrViewport(sectionWidth))
               THEN scrollToSection(targetIndex, TRUE)
               ELSE UNCHANGED <<ctl, resizeVars, lastCall, episode>>
    /\ lastWheel' = <<0, 0>>
    /\ UNCHANGED <<mounted, apiVars, auditVars>>
    /\ lastTouchEnd' = <<0, 0>>
    /\ UNCHANGED <<touchVars, wheelRecent, wheelBurst, inputs>>

\* ------------------------------------------------------ frames and scrolling
\* The settle timers after a frame interval (some 16 ms of their 800 ms).
Aged(timers) == [i \in DOMAIN timers |-> [timers[i] EXCEPT !.aged = TRUE]]

\* handleScroll's animation-frame callback at offset o.
handleScroll(o) ==
    setCurrentSection(ResolveIndex(o, WidthOrViewport(sectionWidth)))

\* One frame of the smooth scroll in flight, followed by the scroll event:
\* handleScroll's animation-frame callback sets the index from the offset.
Frame ==
    /\ mounted
    /\ animTarget /= NoAnim
    /\ \E step \in 1..Min(MaxFrameStep, Abs(animTarget - scrollLeft)) :
       LET o == IF animTarget > scrollLeft THEN scrollLeft + step ELSE scrollLeft - step
       IN
        /\ scrollLeft' = o
        /\ animTarget' = IF o = animTarget THEN NoAnim ELSE animTarget
        /\ handleScroll(o)
    /\ settleTimers' = Aged(settleTimers)
    /\ episode' = EpisodeAfterStep
    /\ lastWheel' = <<0, 0>>
    /\ UNCHANGED <<mounted, apiVars, auditVars>>
    /\ lastTouchEnd' = <<0, 0>>
    /\ UNCHANGED <<scrollInProgressRef, pendingScrollRef, scrollSnapType,
                   sectionWidth, layoutTimers, inputs, lastCall,
                   touchVars, wheelRefs>>

\* A frame interval (some 16 ms of a settle timer's 800 ms) passes with no
\* smooth scroll to render.
FrameIntervalPasses ==
    /\ animTarget = NoAnim
    /\ settleTimers /= Aged(settleTimers)
    /\ settleTimers' = Aged(settleTimers)
    /\ episode' = EpisodeAfterStep
    /\ lastWheel' = <<0, 0>>
    /\ UNCHANGED <<mounted, apiVars, auditVars>>
    /\ lastTouchEnd' = <<0, 0>>
    /\ UNCHANGED <<currentSection, scrollInProgressRef, pendingScrollRef,
                   scrollLeft, animTarget, scrollSnapType, resizeVars, inputs,
                   lastCall, touchVars, wheelRefs>>

\* ------------------------------------------------------------------- resize
\* Where the container may be after the sections are laid out at width w:
\* the offset is kept (within the new range), or, while the container snaps,
\* the section it was snapped to is kept.
RelayoutPositions(w) ==
    {ClampScroll(scrollLeft, w)}
    \cup IF scrollSnapType = SnapOn /\ sectionWidth > 0
            /\ scrollLeft % sectionWidth = 0
         THEN {(scrollLeft \div sectionWidth) * w}
         ELSE {}

\* The window is resized: handleResize restarts its debounce timer, then the
\* sections are laid out at the new width and a moved offset is a scroll event.
handleResize ==
    /\ mounted
    /\ inputs < MaxInputs
    /\ inputs' = inputs + 1
    /\ \E w \in ViewportWidths \ {sectionWidth} :
         \E o \in RelayoutPositions(w) :
            /\ sectionWidth' = w
            /\ scrollLeft' = o
            /\ animTarget' = IF animTarget = NoAnim THEN NoAnim
                              ELSE SmoothScrollTo(animTarget, o, w)
            /\ IF o /= scrollLeft
               THEN LET idx == ResolveIndex(o, w)
                    IN /\ currentSection' = idx
                       /\ resizeTimeout' = (idx = currentSection)
               ELSE /\ resizeTimeout' = TRUE
                    /\ UNCHANGED currentSection
    /\ episode' = NoEpisode
    /\ lastWheel' = <<0, 0>>
    /\ UNCHANGED <<mounted, apiVars, auditVars>>
    /\ lastTouchEnd' = <<0, 0>>
    /\ UNCHANGED <<scrollInProgressRef, pendingScrollRef, scrollSnapType,
                   settleTimers, layoutTimers, lastCall, touchVars,
                   wheelRefs>>

\* The 150 ms debounce timer starts the 100 ms layout timer.
ResizeDebounce ==
    /\ resizeTimeout
    /\ resizeTimeout' = FALSE
    /\ layoutTimers' = Append(layoutTimers, currentSection)
    /\ lastWheel' = <<0, 0>>
    /\ UNCHANGED <<mounted, apiVars, auditVars>>
    /\ lastTouchEnd' = <<0, 0>>
    /\ UNCHANGED <<ctl, sectionWidth, inputs, lastCall, episode, touchVars,
                   wheelRefs>>

\* The layout timer: scroll to the section the handler's closure holds when
\* the offset is more than 10px from it. scrollTo's behavior 'auto' takes the
\* container's scroll-behavior, which its style sets to 'smooth'.
ResizeCorrects(section) ==
    Abs(scrollLeft - sectionWidth * section) > ResizeTolerance

ResizeReconcile ==
    /\ layoutTimers /= <<>>
    /\ layoutTimers' = Tail(layoutTimers)
    /\ LET section == Head(layoutTimers)
       IN animTarget' = IF ResizeCorrects(section)
                        THEN SmoothScrollTo(sectionWidth * section, scrollLeft,
                                            sectionWidth)
                        ELSE animTarget
    /\ episode' = NoEpisode
    /\ lastWheel' = <<0, 0>>
    /\ UNCHANGED <<mounted, apiVars, auditVars>>
    /\ lastTouchEnd' = <<0, 0>>
    /\ UNCHANGED <<currentSection, scrollInProgressRef, pendingScrollRef,
                   scrollLeft, scrollSnapType, settleTimers, sectionWidth,
                   resizeTimeout, inputs, lastCall, touchVars, wheelRefs>>

\* ----------------------------------------------------------- specification
\* No api call has been made.
ApiIdle ==
    /\ response = NoResponse
    /\ outcome = NoOutcome

\* AuditPage as mounted: no job, no status, no stream.
AuditIdle ==
    /\ jobId = 0
    /\ streamStatus = NoStatus
    /\ startAudit = "idle"
    /\ es = "none"
    /\ errorFetch = 0
    /\ refreshFetch = 0
    /\ jobs = <<>>

Init ==
    /\ currentSection = 0
    /\ scrollInProgressRef = FALSE
    /\ pendingScrollRef = NoPending
    /\ scrollLeft = 0
    /\ animTarget = NoAnim
    /\ scrollSnapType = SnapOn
    /\ sectionWidth = ViewportWidth
    /\ settleTimers = <<>>
    /\ touchStart = [y |-> 0, x |-> 0]
    /\ accumulatedDelta = 0
    /\ wheelRecent = FALSE
    /\ wheelTimeout = NoTimer
    /\ resizeTimeout = FALSE
    /\ layoutTimers = <<>>
    /\ inputs = 0
    /\ lastCall = [n |-> 0, index |-> 0, kind |-> "none"]
    /\ episode = NoEpisode
    /\ wheelBurst = [events |-> 0, idle |-> TRUE]
    /\ lastWheel = <<0, 0>>
    /\ lastTouchEnd = <<0, 0>>
    /\ mounted = TRUE
    /\ ApiIdle
    /\ AuditIdle

Next ==
    \/ ButtonClick
    \/ handleKey
    \/ handleTouchStart
    \/ handleTouchEnd
    \/ handleWheel
    \/ WheelCooldownElapses
    \/ WheelFlush
    \/ handleResize
    \/ ResizeDebounce
    \/ ResizeReconcile
    \/ SettleCheck
    \/ Frame
    \/ FrameIntervalPasses

Spec == Init /\ [][Next]_vars

\* A timer that has been set fires.
LiveSpec ==
    Spec /\ WF_vars(SettleCheck) /\ WF_vars(Frame) /\ WF_vars(FrameIntervalPasses)

\* -------------------------------------------- the resolver on its own
\* The index computation of handleScroll applied to any offset at a section
\* width of ViewportWidth or of 100 * ViewportWidth pixels.
ResolverWidths == {ViewportWidth, 100 * ViewportWidth}

\* Offsets across all the sections, and one far past the last of them.
ResolverOffsets(w) == 0..(NumSections * w) \cup {999 * w}

ResolverInit ==
    /\ Init!1 /\ Init!2 /\ Init!3 /\ Init!4 /\ Init!5 /\ Init!6
    /\ sectionWidth \in ResolverWidths
    /\ Init!8 /\ Init!9 /\ Init!10 /\ Init!11 /\ Init!12 /\ Init!13
    /\ Init!14 /\ Init!15 /\ Init!16 /\ Init!17 /\ Init!18 /\ Init!19 /\ Init!20
    /\ Init!21 /\ Init!22 /\ Init!23

\* The first scroll event of a run, with the container at offset o:
\* handleScroll's animation-frame callback.
ScrollEventAt ==
    /\ inputs = 0
    /\ inputs' = 1
    /\ \E o \in ResolverOffsets(sectionWidth) :
         /\ scrollLeft' = o
         /\ handleScroll(o)
    /\ lastWheel' = <<0, 0>>
    /\ UNCHANGED <<mounted, apiVars, auditVars>>
    /\ lastTouchEnd' = <<0, 0>>
    /\ UNCHANGED <<scrollInProgressRef, pendingScrollRef, animTarget,
                   scrollSnapType, settleTimers, sectionWidth, layoutTimers,
                   lastCall, episode, touchVars, wheelRefs>>

ResolverSpec == ResolverInit /\ [][ScrollEventAt]_vars

\* ------------------------------------------------------- wheel input alone
\* Wheel events (deltaY, deltaX) of a run in which the wheel is the only input:
\* a small step, noise below the threshold, a step backwards, a rapid scroll.
BurstEvents == {<<20, 0>>, <<2, 0>>, <<-60, 0>>, <<450, 0>>}

\* The page at rest on any one of the sections.
WheelInit ==
    /\ currentSection \in 0..MaxIndex
    /\ Init!2 /\ Init!3
    /\ scrollLeft = currentSection * ViewportWidth
    /\ Init!5 /\ Init!6 /\ Init!7 /\ Init!8 /\ Init!9 /\ Init!10 /\ Init!11
    /\ Init!12 /\ Init!13 /\ Init!14 /\ Init!15 /\ Init!16 /\ Init!17
    /\ Init!18 /\ Init!19 /\ Init!20
    /\ Init!21 /\ Init!22 /\ Init!23

WheelBurstEvent ==
    /\ inputs < MaxBurst
    /\ lastCall.n < MaxWheelRequests
    /\ inputs' = inputs + 1
    /\ \E e \in BurstEvents : WheelEvent(e[1], e[2])

WheelNext ==
    \/ WheelBurstEvent
    \/ WheelCooldownElapses
    \/ WheelFlush
    \/ SettleCheck
    \/ Frame

WheelSpec == WheelInit /\ [][WheelNext]_vars

\* ----------------------------------------------- touch and key input alone
\* The page at rest on any one of the sections.
TouchInit == WheelInit

SwipeStart ==
    /\ inputs < MaxSwipeInputs
    /\ inputs' = inputs + 1
    /\ TouchStart

SwipeEnd ==
    /\ inputs < MaxSwipeInputs
    /\ inputs' = inputs + 1
    /\ TouchEnd

ArrowKey ==
    /\ inputs < MaxSwipeInputs
    /\ inputs' = inputs + 1
    /\ KeyPress

TouchNext ==
    \/ SwipeStart
    \/ SwipeEnd
    \/ ArrowKey
    \/ SettleCheck
    \/ Frame
    \/ FrameIntervalPasses

TouchSpec == TouchInit /\ [][TouchNext]_vars

\* --------------------------------------------------------- resizing alone
\* The page at rest on any one of the sections, at either window width.
ResizeInit ==
    /\ currentSection \in 0..MaxIndex
    /\ Init!2 /\ Init!3
    /\ sectionWidth \in ViewportWidths
    /\ scrollLeft = currentSection * sectionWidth
    /\ Init!5 /\ Init!6 /\ Init!8 /\ Init!9 /\ Init!10 /\ Init!11
    /\ Init!12 /\ Init!13 /\ Init!14 /\ Init!15 /\ Init!16 /\ Init!17
    /\ Init!18 /\ Init!19 /\ Init!20
    /\ Init!21 /\ Init!22 /\ Init!23

ResizeNext ==
    \/ handleResize
    \/ ResizeDebounce
    \/ ResizeReconcile
    \/ Frame

ResizeSpec == ResizeInit /\ [][ResizeNext]_vars

\* ------------------------------------------------- unmeasurable geometry
\* The page as mounted, its first section measurable or not (offsetWidth 0).
GeometryInit ==
    /\ Init!1 /\ Init!2 /\ Init!3 /\ Init!4 /\ Init!5 /\ Init!6
    /\ sectionWidth \in {0, ViewportWidth}
    /\ Init!8 /\ Init!9 /\ Init!10 /\ Init!11
    /\ Init!12 /\ Init!13 /\ Init!14 /\ Init!15 /\ Init!16 /\ Init!17
    /\ Init!18 /\ Init!19 /\ Init!20
    /\ Init!21 /\ Init!22 /\ Init!23

GeometrySpec == GeometryInit /\ [][Next]_vars

\* ---------------------------------------------------------------- lifecycle
\* The page unmounts: the effects' cleanups remove the listeners, cancel the
\* pending animation frame and clear the wheel and resize debounce timers.
Unmount ==
    /\ mounted
    /\ mounted' = FALSE
    /\ wheelTimeout' = NoTimer
    /\ resizeTimeout' = FALSE
    /\ lastWheel' = <<0, 0>>
    /\ lastTouchEnd' = <<0, 0>>
    /\ UNCHANGED <<ctl, sectionWidth, layoutTimers, touchVars, accumulatedDelta,
                   wheelRecent, wheelBurst, inputs, lastCall, episode,
                   apiVars, auditVars>>

LifecycleNext ==
    \/ Next
    \/ Unmount

LifecycleSpec == Init /\ [][LifecycleNext]_vars

\* ------------------------------------------------------------ api/client.ts
\* Responses of the backend: status, content-type header, body and status
\* text. A body is its text, whether JSON.parse accepts it, and what the
\* parsed value is: an object or not, with a detail field or not, the field
\* a string or not.
Statuses == {200, 204, 403, 500}
ContentTypes == {"application/json", "application/json; charset=utf-8",
                 "text/plain", ""}
StatusTexts == {"", "Forbidden"}
TextBody(raw) ==
    [raw |-> raw, parses |-> FALSE, isObject |-> FALSE, hasDetail |-> FALSE,
     detailIsString |-> FALSE, detail |-> ""]
JsonValue(raw) ==
    [raw |-> raw, parses |-> TRUE, isObject |-> FALSE, hasDetail |-> FALSE,
     detailIsString |-> FALSE, detail |-> ""]
JsonObject(raw) == [JsonValue(raw) EXCEPT !.isObject = TRUE]
JsonDetail(raw, detail) ==
    [JsonObject(raw) EXCEPT !.hasDetail = TRUE, !.detailIsString = TRUE,
                            !.detail = detail]
Bodies ==
    {JsonDetail("{\"detail\":\"Forbidden\"}", "Forbidden"),
     JsonDetail("{\"detail\":\"\"}", ""),
     [JsonObject("{\"detail\":[\"loc\"]}") EXCEPT !.hasDetail = TRUE],
     JsonObject("{\"error\":\"denied\"}"),
     JsonValue("null"),
     TextBody("<html>Bad Gateway</html>"),
     TextBody("")}
Responses ==
    {[ok |-> st \in 200..299, status |-> st, contentType |-> ct, body |-> b,
      statusText |-> tx] :
        st \in Statuses, ct \in ContentTypes, b \in Bodies, tx \in StatusTexts}

\* contentType.includes('application/json')
IsJsonType(contentType) ==
    contentType \in {"application/json", "application/json; charset=utf-8"}

\* a || b on strings
OrElse(a, b) == IF a = "" THEN b ELSE a

PayloadAsMessage(res) == OrElse(res.body.raw, res.statusText)

\* readErrorPayload(res).message
ErrorMessage(res) ==
    IF IsJsonType(res.contentType)
    THEN IF ~res.body.parses
         THEN res.statusText
         ELSE LET detailIsString == /\ res.body.isObject
                                    /\ res.body.hasDetail
                                    /\ res.body.detailIsString
              IN OrElse(IF detailIsString THEN res.body.detail ELSE res.body.raw,
                        res.statusText)
    ELSE OrElse(res.body.raw, res.statusText)

\* throw new ApiError(message, res.status, payload)
ApiError(res) ==
    [kind |-> "rejected", error |-> "ApiError", status |-> res.status,
     message |-> ErrorMessage(res)]

Resolved(data) == [kind |-> "resolved", data |-> data]

\* res.json(): the parsed body, or the SyntaxError of JSON.parse.
ResJson(res) ==
    IF res.body.parses THEN Resolved(res.body.raw)
    ELSE [kind |-> "rejected", error |-> "SyntaxError", status |-> 0,
          message |-> "Unexpected token"]

\* request(path, options)
request ==
    /\ outcome = NoOutcome
    /\ outcome' = IF ~response.ok THEN ApiError(response)
                  ELSE IF response.status \in {204, 205} THEN Resolved("undefined")
                  ELSE IF IsJsonType(response.contentType) THEN ResJson(response)
                  ELSE Resolved(response.body.raw)
    /\ UNCHANGED <<landingVars, response, auditVars>>

\* requestForm(path, form)
requestForm ==
    /\ outcome = NoOutcome
    /\ outcome' = IF ~response.ok THEN ApiError(response) ELSE ResJson(response)
    /\ UNCHANGED <<landingVars, response, auditVars>>

\* requestBlob(path, options)
requestBlob ==
    /\ outcome = NoOutcome
    /\ outcome' = IF ~response.ok THEN ApiError(response)
                  ELSE Resolved(response.body.raw)
    /\ UNCHANGED <<landingVars, response, auditVars>>

\* fetch has resolved with any one of the responses.
ApiInit ==
    /\ Init!1 /\ Init!2 /\ Init!3 /\ Init!4 /\ Init!5 /\ Init!6 /\ Init!7
    /\ Init!8 /\ Init!9 /\ Init!10 /\ Init!11 /\ Init!12 /\ Init!13
    /\ Init!14 /\ Init!15 /\ Init!16 /\ Init!17 /\ Init!18 /\ Init!19
    /\ Init!20 /\ Init!21
    /\ response \in Responses
    /\ outcome = NoOutcome
    /\ Init!23

ApiNext ==
    \/ request
    \/ requestForm
    \/ requestBlob

ApiSpec == ApiInit /\ [][ApiNext]_vars

\* ------------------------------------------- routes/upload.tsx: AuditPage
\* States of a backend audit job, as the status payload's state field.
Terminal == {"SUCCESS", "FAILURE"}

\* startAudit.isPending
isPending == startAudit = "pending"

\* disabled={...} of the Launch Full Audit button, datasets and models listed.
LaunchDisabled ==
    isPending \/ (jobId /= 0 /\ streamStatus \notin Terminal)

\* onClick of Launch Full Audit: startAudit.mutate().
Launch ==
    /\ ~LaunchDisabled
    /\ Len(jobs) < MaxJobs
    /\ startAudit' = "pending"
    /\ UNCHANGED <<landingVars, apiVars, jobId, streamStatus, es, errorFetch,
                   refreshFetch, jobs>>

\* The backend has created the job and answered: onSuccess sets jobId, and
\* the effect on [jobId] closes the previous EventSource and opens the job's.
LaunchSucceeds ==
    /\ isPending
    /\ startAudit' = "success"
    /\ jobs' = Append(jobs, "PENDING")
    /\ jobId' = Len(jobs) + 1
    /\ es' = "open"
    /\ UNCHANGED <<landingVars, apiVars, streamStatus, errorFetch, refreshFetch>>

\* The request failed: the mutation is in error, no job id is set.
LaunchFails ==
    /\ isPending
    /\ startAudit' = "error"
    /\ UNCHANGED <<landingVars, apiVars, jobId, streamStatus, es, errorFetch,
                   refreshFetch, jobs>>

\* The backend moves a job on.
JobAdvances ==
    /\ \E j \in DOMAIN jobs :
         \/ jobs[j] = "PENDING" /\ jobs' = [jobs EXCEPT ![j] = "PROGRESS"]
         \/ /\ jobs[j] = "PROGRESS"
            /\ \E end \in Terminal : jobs' = [jobs EXCEPT ![j] = end]
    /\ UNCHANGED <<landingVars, apiVars, jobId, streamStatus, startAudit, es,
                   errorFetch, refreshFetch>>

\* The 'status' listener: an event of the stream carries the job's state.
StreamStatus ==
    /\ es = "open"
    /\ jobs[jobId] \notin Terminal
    /\ streamStatus' = jobs[jobId]
    /\ UNCHANGED <<landingVars, apiVars, jobId, startAudit, es, errorFetch,
                   refreshFetch, jobs>>

\* The 'done' listener: the final state, and the stream is closed.
StreamDone ==
    /\ es = "open"
    /\ jobs[jobId] \in Terminal
    /\ streamStatus' = jobs[jobId]
    /\ es' = "closed"
    /\ UNCHANGED <<landingVars, apiVars, jobId, startAudit, errorFetch,
                   refreshFetch, jobs>>

\* es.onerror: the stream is closed and the job's status is fetched.
StreamError ==
    /\ es = "open"
    /\ es' = "closed"
    /\ errorFetch' = jobId
    /\ UNCHANGED <<landingVars, apiVars, jobId, streamStatus, startAudit,
                   refreshFetch, jobs>>

\* api.auditFullStatus(jobId) of es.onerror resolves: the status is shown
\* unless the effect has been cleaned up (closed).
ErrorFetchResolves ==
    /\ errorFetch /= 0
    /\ streamStatus' = IF errorFetch = jobId THEN jobs[errorFetch]
                        ELSE streamStatus
    /\ errorFetch' = 0
    /\ UNCHANGED <<landingVars, apiVars, jobId, startAudit, es, refreshFetch,
                   jobs>>

\* ... or rejects: "ignore".
ErrorFetchRejects ==
    /\ errorFetch /= 0
    /\ errorFetch' = 0
    /\ UNCHANGED <<landingVars, apiVars, jobId, streamStatus, startAudit, es,
                   refreshFetch, jobs>>

\* onClick of Refresh.
Refresh ==
    /\ jobId /= 0
    /\ refreshFetch = 0
    /\ refreshFetch' = jobId
    /\ UNCHANGED <<landingVars, apiVars, jobId, streamStatus, startAudit, es,
                   errorFetch, jobs>>

\* Its api.auditFullStatus(jobId) resolves (a rejection changes nothing).
RefreshSettles ==
    /\ refreshFetch /= 0
    /\ refreshFetch' = 0
    /\ \/ streamStatus' = jobs[refreshFetch]
       \/ UNCHANGED streamStatus
    /\ UNCHANGED <<landingVars, apiVars, jobId, startAudit, es, errorFetch,
                   jobs>>

AuditNext ==
    \/ Launch
    \/ LaunchSucceeds
    \/ LaunchFails
    \/ JobAdvances
    \/ StreamStatus
    \/ StreamDone
    \/ StreamError
    \/ ErrorFetchResolves
    \/ ErrorFetchRejects
    \/ Refresh
    \/ RefreshSettles

AuditSpec == Init /\ [][AuditNext]_vars

\* ------------------------------------------------------------------ claims
\* clamp(index, 0, N-1), as the claims state it.
ClampedTo(index) ==
    IF index < 0 THEN 0 ELSE IF index > NumSections - 1 THEN NumSections - 1 ELSE index

\* The indices the handlers pass to scrollToSection: a section, the one before
\* the first, the one after the last.
CallIndices == -1..NumSections

\* The step is a call of scrollToSection.
IsCall == lastCall'.n /= lastCall.n

\* Every timer has fired and all scrolling has stopped.
Settled == Quiescent

\* The episode is two calls, scrollToSection(a) immediately followed by
\* scrollToSection(b), with no input since.
PairEpisode(a, b) == episode.ok /\ episode.calls = <<a, b>>

\* The episode is the single call scrollToSection(k), with no input since.
SingleEpisode(k) == episode.ok /\ episode.calls = <<k>>

\* C1: after scrollToSection(a) immediately followed by scrollToSection(b),
\* a /= b, and no further input, once every settle timer has fired and all
\* scrolling has stopped the authoritative index is b and the viewport is at
\* section b.
C1_NewestWins ==
    \A a, b \in CallIndices :
        (ClampedTo(a) /= ClampedTo(b) /\ PairEpisode(a, b) /\ Settled)
            => /\ currentSection = ClampedTo(b)
               /\ scrollLeft = ClampedTo(b) * sectionWidth

\* C2: after scrollToSection(k) called from an idle state, with no other input,
\* once the settle check has run and scrolling has stopped the offset is
\* k * pixelWidth and the authoritative index is k.
C2_Convergence ==
    \A k \in CallIndices :
        (SingleEpisode(k) /\ Settled)
            => /\ scrollLeft = ClampedTo(k) * sectionWidth
               /\ currentSection = ClampedTo(k)

\* A single call has moved the page from another section and has settled.
C2_Witness ==
    \E k \in 0..MaxIndex :
        /\ SingleEpisode(k) /\ Settled /\ episode.moved
        /\ episode.fromIndex /= k
        /\ scrollLeft = k * sectionWidth

\* C3: at most one transition is in flight: only the newest request's settle
\* check is pending.
C3_SingleFlight == Len(settleTimers) <= 1

Idle == ~scrollInProgressRef /\ pendingScrollRef = NoPending

\* C4: inputs being finitely many, the controller is eventually Idle for good:
\* transitionInProgress false and pendingIndex none.
C4_FlagClears == <>[]Idle

\* The controller is Idle again after a call that replaced a transition and
\* after all the inputs of the run.
C4_Witness ==
    /\ Idle /\ settleTimers = <<>>
    /\ lastCall.kind = "replace"
    /\ inputs = MaxInputs

\* C5: once every transition has settled (controller Idle, no settle check
\* pending) the container's scroll-snap is enabled again.
C5_SnapRestored ==
    (Idle /\ settleTimers = <<>>) => scrollSnapType = SnapOn

\* C6: whenever transitionInProgress is false, the authoritative index is the
\* index resolved from the scroll offset, within a tolerance of a few pixels.
C6_IndexMatchesOffset ==
    ~scrollInProgressRef =>
        \E d \in -SettleTolerance..SettleTolerance :
            currentSection =
                ClampedTo(UnclampedIndex(ClampScroll(scrollLeft + d, sectionWidth),
                                         sectionWidth))

\* C7: a call whose clamped index is the index of the pending transition
\* changes nothing: offset, scroll target, authoritative index, pendingIndex,
\* transitionInProgress, scroll-snap setting and pending settle timers.
C7_DuplicateIsNoOp ==
    [][(IsCall /\ pendingScrollRef = ClampedTo(lastCall'.index))
          => UNCHANGED <<scrollLeft, animTarget, currentSection, pendingScrollRef,
                         scrollInProgressRef, scrollSnapType, settleTimers>>]_vars

\* A duplicate call has been made while its transition is pending.
C7_Witness ==
    /\ lastCall.kind = "duplicate"
    /\ scrollInProgressRef
    /\ pendingScrollRef = ClampedTo(lastCall.index)
    /\ Len(settleTimers) = 1

\* C8: a non-duplicate call with any index sets the authoritative index and
\* pendingIndex to the clamped index and transitionInProgress to true at once,
\* before the offset has changed.
C8_ClampedImmediately ==
    [][(IsCall /\ ~(scrollInProgressRef /\ pendingScrollRef = ClampedTo(lastCall'.index)))
          => /\ currentSection' = ClampedTo(lastCall'.index)
             /\ pendingScrollRef' = ClampedTo(lastCall'.index)
             /\ scrollInProgressRef'
             /\ scrollLeft' = scrollLeft]_vars

\* A non-duplicate call with an index above N-1 has been clamped to N-1.
C8_Witness ==
    /\ lastCall.kind = "fresh"
    /\ lastCall.index > NumSections - 1
    /\ currentSection = NumSections - 1
    /\ pendingScrollRef = NumSections - 1
    /\ scrollInProgressRef

\* The episode is one call of scrollToSection(k) made while idle at section k.
AtRestEpisode(k) ==
    /\ episode.ok /\ Len(episode.calls) = 1
    /\ ClampedTo(episode.calls[1]) = k
    /\ episode.fromIndex = k
    /\ episode.from = k * sectionWidth

\* C9: scrollToSection(k) called when idle at section k leaves the offset and
\* the authoritative index unchanged, at once and after the settle check.
C9_Idempotent ==
    \A k \in 0..MaxIndex :
        AtRestEpisode(k) => scrollLeft = episode.from /\ currentSection = k

\* The settle check of such a call has run.
C9_Witness ==
    \E k \in 1..MaxIndex :
        AtRestEpisode(k) /\ episode.moved /\ settleTimers = <<>>

\* C10: a call that replaces the transition in progress leaves the offset where
\* the animation had brought it and starts the new scroll from there toward
\* the new target.
C10_CancelFreezes ==
    [][(IsCall /\ scrollInProgressRef /\ pendingScrollRef /= ClampedTo(lastCall'.index))
          => /\ scrollLeft' = scrollLeft
             /\ animTarget' =
                  IF ClampedTo(lastCall'.index) * sectionWidth = scrollLeft
                  THEN NoAnim
                  ELSE ClampedTo(lastCall'.index) * sectionWidth]_vars

\* A transition has been replaced in the middle of its animation.
C10_Witness ==
    /\ lastCall.kind = "replace"
    /\ Len(settleTimers) = 2
    /\ ~settleTimers[2].aged
    /\ scrollLeft % sectionWidth /= 0
    /\ animTarget = ClampedTo(lastCall.index) * sectionWidth

\* floor(offset / pixelWidth), and the rule of the resolver as stated: ceil
\* when the fractional part of offset / pixelWidth is greater than 0.3, floor
\* otherwise, clamped to [0, N-1].
FloorIndex(offset, w) == offset \div w

StatedResolve(offset, w) ==
    ClampedTo(IF 10 * (offset % w) > 3 * w
              THEN FloorIndex(offset, w) + 1
              ELSE FloorIndex(offset, w))

\* C11: for every offset and pixelWidth the resolved index is ceil(offset /
\* pixelWidth) when the fractional part exceeds 0.3 and floor otherwise,
\* clamped to [0, N-1].
C11_ResolverRule == currentSection = StatedResolve(scrollLeft, sectionWidth)

\* The offset is at exactly 0.3 of a section past a section start.
AtThreshold == 10 * (scrollLeft % sectionWidth) = 3 * sectionWidth

\* C12 as stated: an offset at exactly the 0.3 threshold rounds up, to k + 1
\* for k < N-1.
C12_ThresholdRoundsUp ==
    (AtThreshold /\ FloorIndex(scrollLeft, sectionWidth) < NumSections - 1)
        => currentSection = FloorIndex(scrollLeft, sectionWidth) + 1

\* C12 amended: an offset at exactly the 0.3 threshold rounds down, to k, for
\* every k other than 1 (1.3 % 1 exceeds 0.3 in double arithmetic).
C12_ThresholdRoundsDown ==
    (AtThreshold /\ FloorIndex(scrollLeft, sectionWidth) /= 1)
        => currentSection = ClampedTo(FloorIndex(scrollLeft, sectionWidth))

\* resolve(300) = 0 at pixelWidth = 1000 (ViewportWidth = 10).
C12_Witness ==
    /\ sectionWidth = 100 * ViewportWidth
    /\ scrollLeft = (3 * sectionWidth) \div 10
    /\ AtThreshold
    /\ currentSection = 0

\* The step is the firing of handleWheel's debounce timer.
IsWheelFlush == wheelTimeout /= NoTimer /\ wheelTimeout' = NoTimer

\* The step is an input event.
IsInput == inputs' /= inputs

\* Direction of the pending flush: the sign of the last event's deltaY.
FlushDirection == IF wheelTimeout > 0 THEN 1 ELSE -1

\* The burst about to be flushed was received while idle, and the controller
\* is still idle, at rest on the current section.
BurstWhileIdle ==
    /\ wheelBurst.idle
    /\ Idle /\ settleTimers = <<>> /\ animTarget = NoAnim
    /\ scrollLeft = currentSection * sectionWidth

\* There is a section next to the current one in the direction of the burst.
AwayFromBoundary ==
    /\ currentSection + FlushDirection >= 0
    /\ currentSection + FlushDirection <= NumSections - 1

\* The step issues exactly one navigation request.
OneRequest == lastCall'.n = lastCall.n + 1

\* C13 as stated: any burst received while idle and away from the boundary
\* produces exactly one navigation request, of magnitude 1 when the
\* accumulated |deltaY| is at least the minimum threshold and below the
\* double-jump threshold; no wheel event issues a request of its own.
C13_AnyBurstOneRequest ==
    [][/\ IsInput => lastCall' = lastCall
       /\ (IsWheelFlush /\ BurstWhileIdle /\ AwayFromBoundary)
            => /\ OneRequest
               /\ (accumulatedDelta >= DELTA_THRESHOLD
                     /\ accumulatedDelta < 2 * RapidScrollDelta)
                    => lastCall'.index = currentSection + FlushDirection]_vars

\* C13 amended: a burst received while idle and away from the boundary whose
\* accumulated |deltaY| is at least the minimum threshold produces exactly
\* one navigation request, of magnitude 1 when the accumulation is below the
\* double-jump threshold; a burst below the minimum threshold produces none;
\* no wheel event issues a request of its own.
C13_BurstCoalesced ==
    [][/\ IsInput => lastCall' = lastCall
       /\ (IsWheelFlush /\ BurstWhileIdle /\ AwayFromBoundary
             /\ accumulatedDelta >= DELTA_THRESHOLD)
            => /\ OneRequest
               /\ accumulatedDelta < 2 * RapidScrollDelta
                    => lastCall'.index = currentSection + FlushDirection
       /\ (IsWheelFlush /\ accumulatedDelta < DELTA_THRESHOLD)
            => lastCall' = lastCall]_vars

\* A burst of five events has been flushed as one request to the next
\* section, which is not the last one (so the request was not a double jump
\* clamped to it).
C13_Witness ==
    /\ wheelTimeout = NoTimer /\ accumulatedDelta = 0
    /\ wheelBurst = [events |-> 5, idle |-> TRUE]
    /\ inputs = 5
    /\ lastCall.index < NumSections - 1
    /\ lastCall.n = 1
    /\ lastCall.kind = "fresh"
    /\ pendingScrollRef = lastCall.index
    /\ scrollLeft = (lastCall.index - 1) * sectionWidth

\* C14: when the debounce timer fires with accumulated |deltaY| below the
\* minimum threshold, no navigation request is issued, the authoritative index
\* and the offset are unchanged, and the accumulator is reset to zero.
C14_NoiseRejected ==
    [][(IsWheelFlush /\ accumulatedDelta < DELTA_THRESHOLD)
          => /\ lastCall' = lastCall
             /\ currentSection' = currentSection
             /\ scrollLeft' = scrollLeft
             /\ pendingScrollRef' = pendingScrollRef
             /\ accumulatedDelta' = 0]_vars

\* A single small wheel event, received at a section with neighbours on both
\* sides, has been flushed without a request.
C14_Witness ==
    /\ inputs = 1
    /\ wheelBurst = [events |-> 1, idle |-> TRUE]
    /\ wheelTimeout = NoTimer /\ accumulatedDelta = 0
    /\ lastCall.n = 0
    /\ currentSection = 3 /\ scrollLeft = 3 * sectionWidth

\* C15: a wheel flush that issues a request asks for the section 1 away from
\* the resolved current index, or 2 away when the accumulated magnitude has
\* reached the rapid-scroll threshold at which the jump doubles (twice
\* RapidScrollDelta), and never for one further away, clamped to [0, N-1].
C15_JumpSize ==
    [][(IsWheelFlush /\ lastCall'.n /= lastCall.n)
          => LET currentIndex == UnclampedIndex(scrollLeft, sectionWidth)
                 jump == IF accumulatedDelta >= 2 * RapidScrollDelta THEN 2 ELSE 1
             IN /\ lastCall'.n = lastCall.n + 1
                /\ lastCall'.index = ClampedTo(currentIndex + FlushDirection * jump)
                /\ Abs(lastCall'.index - currentIndex) <= 2]_vars

\* A burst of two events has been flushed as one request two sections ahead.
C15_Witness ==
    /\ wheelTimeout = NoTimer /\ accumulatedDelta = 0
    /\ wheelBurst.events = 2
    /\ inputs = 2
    /\ lastCall.n = 1
    /\ pendingScrollRef = lastCall.index
    /\ scrollLeft = (lastCall.index - 2) * sectionWidth

\* A transition is in progress that started less than a frame interval ago,
\* hence less than the wheel cooldown ago.
TransitionJustStarted ==
    /\ scrollInProgressRef
    /\ settleTimers /= <<>>
    /\ ~settleTimers[Len(settleTimers)].aged

\* C16: while a transition started by any input source is in progress and
\* less than the cooldown has elapsed since it started, no wheel-triggered
\* navigation request reaches scrollToSection.
C16_WheelCooldown ==
    [][(IsWheelFlush /\ TransitionJustStarted) => lastCall' = lastCall]_vars

\* C17: a wheel event is a navigation gesture exactly when |deltaY| > |deltaX|
\* (it is accumulated, or dropped by the cooldown, and scrolls nothing itself);
\* any other wheel event scrolls the container by deltaX at once and leaves
\* the accumulator, the debounce timer, the authoritative index, pendingIndex
\* and transitionInProgress unchanged.
C17_WheelClassification ==
    [][lastWheel' /= <<0, 0>>
        => LET deltaY == lastWheel'[1]
               deltaX == lastWheel'[2]
           IN IF Abs(deltaY) > Abs(deltaX)
              THEN /\ UNCHANGED <<scrollLeft, animTarget>>
                   /\ \/ UNCHANGED <<accumulatedDelta, wheelTimeout>>
                      \/ /\ accumulatedDelta' = accumulatedDelta + Abs(deltaY)
                         /\ wheelTimeout' /= NoTimer
              ELSE /\ UNCHANGED <<accumulatedDelta, wheelTimeout, currentSection,
                                  pendingScrollRef, scrollInProgressRef, scrollLeft>>
                   /\ animTarget' \in
                        {NoAnim} \cup ScrollDestinations(scrollLeft + deltaX, sectionWidth)]_vars

\* A horizontal wheel event has started a scroll of the container while a
\* vertical gesture was accumulating, and has left the accumulator alone.
C17_Witness ==
    /\ lastWheel = <<0, 5>>
    /\ accumulatedDelta = 20 /\ wheelTimeout = 20
    /\ animTarget = sectionWidth /\ scrollLeft = 0
    /\ ~scrollInProgressRef /\ currentSection = 0

\* The step is a touch end; its coordinates, and the swipe's extent.
IsTouchEnd == lastTouchEnd' /= <<0, 0>>

EndY == lastTouchEnd'[1]

EndX == lastTouchEnd'[2]

IsSwipe ==
    /\ Abs(touchStart.y - EndY) > Abs(touchStart.x - EndX)
    /\ Abs(touchStart.y - EndY) > SwipeMinDistance

\* The step issues the one request scrollToSection(currentSection + d).
Advances(d) ==
    /\ lastCall'.n = lastCall.n + 1
    /\ lastCall'.index = currentSection + d

\* C18: at every section, idle or in transition, a touch from startY = 500 to
\* endY = 300 with no horizontal movement issues the request of one ArrowRight
\* key press, scrollToSection(currentSection + 1).
C18_TouchEqualsArrowRight ==
    [][(IsTouchEnd /\ touchStart.y = 500 /\ EndY = 300 /\ EndX = touchStart.x)
          => Advances(1)]_vars

IsReconcile == Len(layoutTimers') < Len(layoutTimers)

Discrepancy == Abs(scrollLeft - currentSection * sectionWidth)

\* C20: the resize reconciler does not change the authoritative index, and
\* when the offset is more than the tolerance away from index x width its
\* scroll is not animated: the offset is index x width as soon as it has run.
C20_ResizeStability ==
    [][IsReconcile
          => /\ currentSection' = currentSection
             /\ Discrepancy > ResizeTolerance
                  => /\ scrollLeft' = currentSection * sectionWidth
                     /\ animTarget' = NoAnim]_vars

\* The step is a scrollToSection call that starts a transition; the call's
\* record holds the width it measured and the index it clamped.
StartsTransition == Len(settleTimers') > Len(settleTimers)

Started == settleTimers'[Len(settleTimers')]

\* C21: a request for section k targets k x viewport width, also while the
\* first section's measured width is zero.
C21_ViewportFallback ==
    [][StartsTransition
          => Started.width * Started.index = Started.index * innerWidth]_vars

\* The api call has settled on a response that was not OK.
SettledNotOk == outcome /= NoOutcome /\ ~response.ok

RejectedWithStatus ==
    /\ outcome.kind = "rejected"
    /\ outcome.error = "ApiError"
    /\ outcome.status = response.status

HasStringDetail ==
    /\ response.body.parses
    /\ response.body.isObject
    /\ response.body.hasDetail
    /\ response.body.detailIsString

\* C22 as stated: a call whose response is not OK rejects with an ApiError
\* carrying the response's status, and its message is the body's string
\* detail field whenever the body is JSON with such a field.
C22_MessageIsDetail ==
    SettledNotOk
        => /\ RejectedWithStatus
           /\ HasStringDetail => outcome.message = response.body.detail

\* C22 amended: a call whose response is not OK rejects with an ApiError
\* carrying the response's status; its message is the body's detail field
\* when the content-type is application/json and detail is a non-empty
\* string.
C22_RejectsWithApiError ==
    SettledNotOk
        => /\ RejectedWithStatus
           /\ (/\ IsJsonType(response.contentType)
               /\ HasStringDetail
               /\ response.body.detail /= "")
                => outcome.message = response.body.detail

\* The case of the client's test: 403 with JSON detail 'Forbidden'.
C22_Witness ==
    /\ response.status = 403
    /\ response.contentType = "application/json"
    /\ response.body.detail = "Forbidden"
    /\ outcome.kind = "rejected"
    /\ outcome.status = 403
    /\ outcome.message = "Forbidden"

\* Nothing the page has started is still pending: the stream is closed and
\* no status fetch is in flight.
AuditQuiet ==
    /\ jobId /= 0
    /\ ~isPending
    /\ es = "closed"
    /\ errorFetch = 0
    /\ refreshFetch = 0

\* C23: the page keeps fetching the job's status after a stream error, so it
\* never comes to rest showing another state than the one the job ended in.
C23_PollingFallback ==
    (AuditQuiet /\ jobs[jobId] \in Terminal) => streamStatus = jobs[jobId]

\* C30: while the job whose id is set has not reached SUCCESS or FAILURE the
\* Launch button is disabled.
C30_SingleActiveJob ==
    (jobId /= 0 /\ jobs[jobId] \notin Terminal) => LaunchDisabled

\* The step is a settle check; the transition it belongs to, and that
\* transition's target offset.
IsSettleCheck == Len(settleTimers') < Len(settleTimers)

Settling == Head(settleTimers)

SettleTarget == Settling.index * Settling.width

\* C24: the settle check of a transition to index k scrolls to k x pixelWidth
\* exactly when the offset is more than 2 pixels from it, starts no scroll
\* otherwise (so not when it runs again in a settled state), and in both
\* cases clears transitionInProgress and pendingIndex in the same step.
C24_SettleCorrection ==
    [][IsSettleCheck
          => /\ IF Abs(scrollLeft - SettleTarget) > 2
                THEN animTarget' = IF ClampScroll(SettleTarget, sectionWidth) = scrollLeft
                                   THEN NoAnim
                                   ELSE ClampScroll(SettleTarget, sectionWidth)
                ELSE animTarget' = animTarget
             /\ scrollLeft' = scrollLeft
             /\ ~scrollInProgressRef'
             /\ pendingScrollRef' = NoPending]_vars

\* A settle check has found the offset away from its target, started the
\* corrective scroll and cleared the flags.
C24_Witness ==
    /\ lastCall.n = 1
    /\ settleTimers = <<>>
    /\ ~scrollInProgressRef
    /\ pendingScrollRef = NoPending
    /\ animTarget = currentSection * sectionWidth
    /\ Abs(scrollLeft - animTarget) > 2

\* C25: transitionInProgress and pendingIndex are cleared only by the settle
\* check of the most recently started transition, the only one then pending:
\* until it runs, the flag stays true and pendingIndex stays the newest index.
C25_ClearedByNewest ==
    [][(scrollInProgressRef /\ lastCall' = lastCall)
          => \/ IsSettleCheck /\ Len(settleTimers) = 1
             \/ /\ scrollInProgressRef'
                /\ pendingScrollRef' = pendingScrollRef]_vars

\* C26: while the transition to section k is in progress and no navigation
\* request arrives, the authoritative index stays k.
C26_IndexHeldInTransition ==
    [][(/\ scrollInProgressRef
        /\ currentSection = pendingScrollRef
        /\ lastCall' = lastCall)
          => currentSection' = currentSection]_vars

\* The scroll a timer callback starts in this step, if it starts one, goes to
\* authoritative index x current width.
ScrollsToCurrent(section) ==
    animTarget' /= animTarget
        => animTarget' \in {NoAnim, ClampScroll(section * sectionWidth, sectionWidth)}

\* C27: among resizes, navigation requests and scroll-driven index changes,
\* (1) once every debounce, layout and settle timer has fired and scrolling
\* has stopped, the offset is authoritative index x current width within the
\* tolerance; (2) the resize reconciler scrolls to the current authoritative
\* index; (3) a settle correction scrolls to its index at the current width,
\* not the width before the resize.
C27_ResizeReconciled ==
    [][/\ Quiescent'
          => Abs(scrollLeft' - currentSection' * sectionWidth') <= ResizeTolerance
       /\ IsReconcile => ScrollsToCurrent(currentSection)
       /\ IsSettleCheck => ScrollsToCurrent(Settling.index)]_vars

\* C28: in every reachable state the authoritative index is one of 0..N-1
\* and pendingIndex is none or one of 0..N-1.
C28_IndicesInRange ==
    /\ currentSection \in 0..(NumSections - 1)
    /\ pendingScrollRef \in {NoPending} \cup 0..(NumSections - 1)

\* ArrowLeft on the first section has requested index -1, and the transition
\* is to section 0.
C28_Witness ==
    /\ lastCall.index = -1
    /\ scrollInProgressRef
    /\ pendingScrollRef = 0
    /\ currentSection = 0

\* C29: once the page has unmounted, no settle, wheel, resize or layout timer
\* of the controller fires, and nothing changes the scroll container or the
\* in-progress flags.
C29_TornDownOnUnmount ==
    [][~mounted
          => /\ Len(settleTimers') = Len(settleTimers)
             /\ Len(layoutTimers') = Len(layoutTimers)
             /\ UNCHANGED <<wheelTimeout, resizeTimeout, scrollLeft, animTarget,
                            scrollSnapType, scrollInProgressRef,
                            pendingScrollRef>>]_vars

====
